---- MODULE Spec2Model ----
(***************************************************************************)
(* Model of the Sleeper integration (custom_components/sleeper): the       *)
(* adaptive polling scheduler, the snapshot builder, the season-state      *)
(* decoder, the refresh cycle of SleeperCoordinator and the matchup and    *)
(* roster sensors.  Specifications: SchedSpec, BuildSpec, DecodeSpec       *)
(* (pure functions), Spec and TimedSpec (refresh cycle, without and with   *)
(* the wall clock in the state), SensorSpec (roster sensors).              *)
(*                                                                         *)
(* Python values are tagged tuples so that None, strings and integers can  *)
(* be told apart: PyNone, Str(s), PyInt(n).  Durations are minutes.          *)
(***************************************************************************)
EXTENDS Integers, Sequences, FiniteSets, TLC

VARIABLES
    sched_in,    \* arguments of one _calculate_update_interval call, with the clock read
    sched_out,   \* <<>> before the call, <<result>> after it
    build_in,    \* arguments of one SleeperData.build call
    build_out,   \* <<>> before the call, <<the SleeperData built>> after it
    tasks,       \* the _async_update_data coroutines, one per slot: position, locals, trace
    data,        \* coordinator.data: <<>> (no data yet) or <<the published SleeperData>>
    update_interval,    \* coordinator.update_interval, in minutes
    last_result,        \* what the last finished cycle handed to the host
    refresh_scheduled,  \* the host has a refresh pending (first refresh, or the armed timer)
    next_cycle,         \* ghost: the id the next cycle gets
    data_cycle,         \* ghost: the id of the cycle that wrote data (0: construction)
    interval_cycle,     \* ghost: the id of the cycle that wrote update_interval
    sensor_out,  \* <<>>, or <<what the my_matchup sensor shows for build_out>>
    decode_in,   \* the payload of one NflState.from_api call
    decode_out,  \* <<>> before the call, <<the NflState decoded>> after it
    clock,       \* datetime.now(EASTERN) as <<day_of_week, hour>>, where the clock runs
    known_roster_ids,   \* sensor.py: <<>> before async_setup_entry, <<the set>> after it
    entities     \* the roster ids handed to async_add_entities as roster sensors, in order

rest_vars == <<sensor_out, decode_in, decode_out, clock, known_roster_ids, entities>>
pure_vars == <<sched_in, sched_out, build_in, build_out, sensor_out, decode_in,
               decode_out, clock, known_roster_ids, entities>>
coord_vars == <<tasks, data, update_interval, last_result, refresh_scheduled,
                next_cycle, data_cycle, interval_cycle>>
vars == <<sched_in, sched_out, build_in, build_out, tasks, data, update_interval,
          last_result, refresh_scheduled, next_cycle, data_cycle, interval_cycle,
          sensor_out, decode_in, decode_out, clock, known_roster_ids, entities>>

\* The variables a specification does not use stay at these values.
RestIdle ==
    /\ sensor_out = <<>>
    /\ decode_in = <<>>
    /\ decode_out = <<>>
    /\ clock = <<>>
    /\ known_roster_ids = <<>>
    /\ entities = <<>>

(***************************************************************************)
(* Python values                                                           *)
(***************************************************************************)
PyNone == <<"None">>
Str(s) == <<"str", s>>
PyInt(n) == <<"int", n>>
IsInt(v) == Len(v) = 2 /\ v[1] = "int"
IsStr(v) == Len(v) = 2 /\ v[1] = "str"

\* The outcome of evaluating an expression: a value, or an exception raised.
Ok(v) == <<"ok", v>>
Raise(e) == <<"raise", e>>
IsOk(r) == r[1] = "ok"

(***************************************************************************)
(* const.py                                                                *)
(***************************************************************************)
UPDATE_INTERVAL_GAME_WINDOW == 5
UPDATE_INTERVAL_GAME_DAY == 15
UPDATE_INTERVAL_REGULAR == 60
UPDATE_INTERVAL_OFFSEASON == 1440

(***************************************************************************)
(* coordinator.py: the polling scheduler                                   *)
(***************************************************************************)
\* datetime.weekday(): 0 = Monday ... 6 = Sunday; datetime.hour: 0..23
Days == 0 .. 6
Hours == 0 .. 23

\* Python's `week >= 15`: a comparison of None with an int raises TypeError.
WeekGe15(week) ==
    IF IsInt(week) THEN Ok(week[2] >= 15) ELSE Raise("TypeError")

\* `week >= 15 or season_type == "post"`: the left operand is evaluated first.
LateSeasonOrPost(week, season_type) ==
    LET c == WeekGe15(week) IN
    IF ~IsOk(c) THEN c
    ELSE Ok(c[2] \/ season_type = Str("post"))

\* A faulty _is_game_day: every Saturday counts as a game day.
is_game_day_EverySaturday(day_of_week, week, season_type) ==
    IF day_of_week \in {0, 3, 5, 6} THEN Ok(TRUE)
    ELSE Ok(FALSE)

is_game_day(day_of_week, week, season_type) ==
    IF day_of_week \in {0, 3, 6} THEN Ok(TRUE)
    ELSE IF day_of_week = 5
         THEN LateSeasonOrPost(week, season_type)
         ELSE Ok(FALSE)

\* A faulty _is_in_game_window: Thursday's window opens after 19:59.
is_in_game_window_ThursdayAfter19(day_of_week, hour, week, season_type) ==
    IF day_of_week = 3 /\ hour > 19 THEN Ok(TRUE)
    ELSE IF day_of_week = 6 /\ hour >= 12 THEN Ok(TRUE)
    ELSE IF day_of_week = 0 /\ hour >= 19 THEN Ok(TRUE)
    ELSE IF day_of_week = 5 /\ hour >= 12
         THEN LateSeasonOrPost(week, season_type)
         ELSE Ok(FALSE)

is_in_game_window(day_of_week, hour, week, season_type) ==
    IF day_of_week = 3 /\ hour >= 19 THEN Ok(TRUE)
    ELSE IF day_of_week = 6 /\ hour >= 12 THEN Ok(TRUE)
    ELSE IF day_of_week = 0 /\ hour >= 19 THEN Ok(TRUE)
    ELSE IF day_of_week = 5 /\ hour >= 12
         THEN LateSeasonOrPost(week, season_type)
         ELSE Ok(FALSE)

\* Lines 105-115: the time-of-day logic of an active season.
ActiveSeasonInterval(season_type, week, day_of_week, hour) ==
    LET w == is_in_game_window(day_of_week, hour, week, season_type) IN
    IF ~IsOk(w) THEN w
    ELSE IF w[2] THEN Ok(UPDATE_INTERVAL_GAME_WINDOW)
    ELSE LET g == is_game_day(day_of_week, week, season_type) IN
         IF ~IsOk(g) THEN g
         ELSE IF g[2] THEN Ok(UPDATE_INTERVAL_GAME_DAY)
         ELSE Ok(UPDATE_INTERVAL_REGULAR)

\* A faulty _calculate_update_interval: the 'off' branch is missing.
calculate_update_interval_NoOffBranch(season_type, week, day_of_week, hour) ==
    IF season_type \notin {Str("regular"), Str("post")}
    THEN Ok(UPDATE_INTERVAL_REGULAR)
    ELSE ActiveSeasonInterval(season_type, week, day_of_week, hour)

\* A faulty _calculate_update_interval: only 'pre' gets the default cadence.
calculate_update_interval_OnlyPreDefault(season_type, week, day_of_week, hour) ==
    IF season_type = Str("off") THEN Ok(UPDATE_INTERVAL_OFFSEASON)
    ELSE IF season_type = Str("pre") THEN Ok(UPDATE_INTERVAL_REGULAR)
    ELSE ActiveSeasonInterval(season_type, week, day_of_week, hour)

\* _calculate_update_interval(season_type, week), with the clock read
\* datetime.now(EASTERN) given as (day_of_week, hour).
calculate_update_interval(season_type, week, day_of_week, hour) ==
    IF season_type = Str("off") THEN Ok(UPDATE_INTERVAL_OFFSEASON)
    ELSE IF season_type \notin {Str("regular"), Str("post")}
         THEN Ok(UPDATE_INTERVAL_REGULAR)
         ELSE ActiveSeasonInterval(season_type, week, day_of_week, hour)

(***************************************************************************)
(* coordinator.py: the state of SleeperCoordinator                         *)
(***************************************************************************)
MaxSlots == 2
Slots == 1 .. MaxSlots

\* The await points of _async_update_data (lines 57-66), by the fetch awaited.
Awaiting == {"nfl_state", "league", "rosters", "users", "matchups"}

NoLocals ==
    [nfl_state |-> <<>>, league |-> <<>>, rosters |-> <<>>, users |-> <<>>]

\* A slot that holds no coroutine.
IdleTask == [pc |-> "idle", cycle |-> 0, locals |-> NoLocals, log |-> <<>>]

InFlight(s) == tasks[s].pc \in Awaiting

\* SleeperCoordinator.__init__: no data yet, update_interval=UPDATE_INTERVAL_REGULAR
CoordIdle ==
    /\ tasks = [s \in Slots |-> IdleTask]
    /\ data = <<>>
    /\ update_interval = UPDATE_INTERVAL_REGULAR
    /\ last_result = "none"
    /\ refresh_scheduled = TRUE
    /\ next_cycle = 1
    /\ data_cycle = 0
    /\ interval_cycle = 0


(***************************************************************************)
(* The scheduler as a pure function: SchedSpec draws its arguments and     *)
(* the clock read, and applies it once.                                    *)
(***************************************************************************)
MaxWeek == 18

\* season_type values the decoder can hand over: the four documented ones,
\* an unrecognized string, the empty string and None (a null field).
SeasonTypeValues ==
    {Str("pre"), Str("regular"), Str("post"), Str("off"),
     Str("playoffs"), Str(""), PyNone}

\* week values: integers from 0 (the decoder does not range-check), and None.
WeekValues == {PyInt(n) : n \in 0 .. MaxWeek} \cup {PyNone}

SchedInputs ==
    [season_type : SeasonTypeValues, week : WeekValues,
     day_of_week : Days, hour : Hours]

SchedInit ==
    /\ sched_in \in SchedInputs
    /\ sched_out = <<>>
    /\ build_in = <<>>
    /\ build_out = <<>>
    /\ CoordIdle
    /\ RestIdle

SchedCall ==
    /\ sched_out = <<>>
    /\ sched_out' = <<calculate_update_interval(
                         sched_in.season_type, sched_in.week,
                         sched_in.day_of_week, sched_in.hour)>>
    /\ UNCHANGED <<sched_in, build_in, build_out, coord_vars, rest_vars>>

SchedNext == SchedCall

SchedSpec == SchedInit /\ [][SchedNext]_vars

(***************************************************************************)
(* models.py: SleeperData.build                                            *)
(*                                                                         *)
(* A Roster is [roster_id, owner_id, wins, fpts]: the fields build reads.  *)
(* fpts is in hundredths of a point (from_api: fpts + fpts_decimal / 100). *)
(* A LeagueUser is [user_id, display_name, team_name].  An optional object *)
(* (Roster | None) is <<>> or <<object>>.                                  *)
(***************************************************************************)
\* Python truthiness of a str | None value: None and "" are falsy.
Truthy(v) == v # PyNone /\ v # Str("")

\* {u.user_id: u for u in users}: a later user with the same id replaces an
\* earlier one.
user_by_id(users) ==
    [k \in {users[i].user_id : i \in DOMAIN users} |->
        LET last == CHOOSE i \in DOMAIN users :
                        /\ users[i].user_id = k
                        /\ \A j \in DOMAIN users : users[j].user_id = k => j <= i
        IN users[last]]

placeholder ==
    [user_id |-> Str(""), display_name |-> Str("Unknown"), team_name |-> PyNone]

OwnerOf_UnknownOwnerGetsAUser(roster, by_id) ==
    IF Truthy(roster.owner_id) /\ roster.owner_id \in DOMAIN by_id
    THEN by_id[roster.owner_id]
    ELSE IF DOMAIN by_id # {}
         THEN by_id[CHOOSE k \in DOMAIN by_id : TRUE]
         ELSE placeholder

\* Lines 150-155: the owner of one roster.
OwnerOf(roster, by_id) ==
    IF Truthy(roster.owner_id) /\ roster.owner_id \in DOMAIN by_id
    THEN by_id[roster.owner_id]
    ELSE placeholder

\* The dict filled by the loop of lines 151-155: a later roster with the same
\* roster_id overwrites the entry of an earlier one.
roster_to_user(rosters, users) ==
    LET by_id == user_by_id(users) IN
    [k \in {rosters[i].roster_id : i \in DOMAIN rosters} |->
        LET last == CHOOSE i \in DOMAIN rosters :
                        /\ rosters[i].roster_id = k
                        /\ \A j \in DOMAIN rosters :
                               rosters[j].roster_id = k => j <= i
        IN OwnerOf(rosters[last], by_id)]

\* The sort key (r.wins, r.fpts), compared as Python compares tuples.
KeyLess(a, b) ==
    a.wins < b.wins \/ (a.wins = b.wins /\ a.fpts < b.fpts)

\* sorted(..., reverse=True) is stable: elements with equal keys keep their
\* input order.  Placing the next element of the input behind every element
\* already placed whose key is not less than its own builds that order.
\* A faulty placement: ahead of the elements with an equal key (ties reversed).
PlaceUnstable(placed, r) ==
    LET before == {i \in DOMAIN placed : KeyLess(r, placed[i])}
        n == Cardinality(before)
    IN  SubSeq(placed, 1, n) \o <<r>> \o SubSeq(placed, n + 1, Len(placed))

Place(placed, r) ==
    LET before == {i \in DOMAIN placed : ~KeyLess(placed[i], r)}
        n == Cardinality(before)
    IN  SubSeq(placed, 1, n) \o <<r>> \o SubSeq(placed, n + 1, Len(placed))

RECURSIVE SortedPrefix(_, _)
SortedPrefix(rosters, k) ==
    IF k = 0 THEN <<>>
    ELSE Place(SortedPrefix(rosters, k - 1), rosters[k])

\* Lines 158-160
sorted_rosters(rosters) == SortedPrefix(rosters, Len(rosters))

\* Line 161
standings(rosters) ==
    LET sr == sorted_rosters(rosters) IN
    [i \in DOMAIN sr |-> sr[i].roster_id]

\* Line 167: user_by_id.get(user_id), guarded by `if user_id:`
my_user(users, user_id) ==
    LET by_id == user_by_id(users) IN
    IF Truthy(user_id) /\ user_id \in DOMAIN by_id
    THEN <<by_id[user_id]>>
    ELSE <<>>

my_roster_NoViewerGuard(rosters, user_id) ==
    LET mine == {i \in DOMAIN rosters : rosters[i].owner_id = user_id} IN
    IF mine # {}
    THEN <<rosters[CHOOSE i \in mine : \A j \in mine : i <= j]>>
    ELSE <<>>

\* Lines 168-171: the first roster whose owner_id equals user_id, guarded by
\* `if user_id:`
my_roster(rosters, user_id) ==
    LET mine == {i \in DOMAIN rosters : rosters[i].owner_id = user_id} IN
    IF Truthy(user_id) /\ mine # {}
    THEN <<rosters[CHOOSE i \in mine : \A j \in mine : i <= j]>>
    ELSE <<>>

\* SleeperData.build
build(nfl_state, league, rosters, users, matchups, user_id) ==
    [nfl_state |-> nfl_state,
     league |-> league,
     rosters |-> rosters,
     users |-> users,
     matchups |-> matchups,
     roster_to_user |-> roster_to_user(rosters, users),
     standings |-> standings(rosters),
     my_roster |-> my_roster(rosters, user_id),
     my_user |-> my_user(users, user_id)]

(***************************************************************************)
(* sensor.py: the my_matchup sensor.  A Matchup is [roster_id, matchup_id, *)
(* points]; matchup_id is PyNone or PyInt(n), points a number.             *)
(***************************************************************************)
\* The least index of a non-empty set of indices: the entry a scan meets first.
FirstOf(S) == CHOOSE i \in S : \A j \in S : i <= j

\* f"{a} - {b}"
ScoreString(a, b) == <<"str", a, " - ", b>>

\* Lines 83-87 and 106-109: the entries the first scan stops at.
MyEntries(d) ==
    {i \in DOMAIN d.matchups : d.matchups[i].roster_id = d.my_roster[1].roster_id}

\* my_matchup_id and my_points after the first scan
my_matchup_id(d) ==
    IF MyEntries(d) = {} THEN PyNone ELSE d.matchups[FirstOf(MyEntries(d))].matchup_id

my_points(d) ==
    IF MyEntries(d) = {} THEN 0 ELSE d.matchups[FirstOf(MyEntries(d))].points

Opponents_OwnEntryCounts(d) ==
    {i \in DOMAIN d.matchups : d.matchups[i].matchup_id = my_matchup_id(d)}

\* Lines 93-94 and 114-115: the entries the second scan accepts.
Opponents(d) ==
    {i \in DOMAIN d.matchups :
        /\ d.matchups[i].matchup_id = my_matchup_id(d)
        /\ d.matchups[i].roster_id # d.my_roster[1].roster_id}

\* _my_matchup_state
my_matchup_state(d) ==
    IF d.my_roster = <<>> THEN PyNone
    ELSE IF my_matchup_id(d) = PyNone THEN Str("BYE")
    ELSE IF Opponents(d) # {}
         THEN ScoreString(my_points(d), d.matchups[FirstOf(Opponents(d))].points)
         ELSE Str("BYE")

NoOpponent(d) ==
    [opponent_name |-> PyNone, opponent_points |-> PyNone, week |-> d.nfl_state.week]

\* _my_matchup_attrs
my_matchup_attrs(d) ==
    IF d.my_roster = <<>> THEN NoOpponent(d)
    ELSE IF my_matchup_id(d) = PyNone THEN NoOpponent(d)
    ELSE IF Opponents(d) # {}
         THEN LET m == d.matchups[FirstOf(Opponents(d))] IN
              [opponent_name |->
                   IF m.roster_id \in DOMAIN d.roster_to_user
                   THEN d.roster_to_user[m.roster_id].display_name
                   ELSE Str("Unknown"),
               opponent_points |-> m.points,
               week |-> d.nfl_state.week]
         ELSE NoOpponent(d)

(***************************************************************************)
(* The builder as a pure function: BuildSpec draws its arguments and       *)
(* applies it once; the my_matchup sensor then reads the snapshot.         *)
(***************************************************************************)
MaxRosters == 3
MaxMatchups == 3

\* Sequences over S of length 0 .. n
SeqUpTo(S, n) == UNION {[1 .. k -> S] : k \in 0 .. n}

User(id, name) == [user_id |-> Str(id), display_name |-> Str(name), team_name |-> PyNone]

TheNflState == [week |-> PyInt(1), season |-> Str("2024"), season_type |-> Str("regular")]
TheLeague == [league_id |-> Str("L1"), name |-> Str("League"), status |-> Str("in_season")]

\* Rosters that differ in id, wins and points: every order of the sort keys,
\* ties on one key or on both, and ids that repeat.
StandingsRosterPool ==
    [roster_id : {1, 2, 3}, owner_id : {PyNone}, wins : {0, 1}, fpts : {0, 50}]

StandingsInputs ==
    [nfl_state : {TheNflState},
     league : {TheLeague},
     rosters : SeqUpTo(StandingsRosterPool, MaxRosters),
     users : {<<User("u1", "Ann")>>},
     matchups : {<<>>},
     user_id : {Str("u1")}]

\* Rosters that differ in their owner: no owner, an empty owner id, the id of
\* a user, an id no user has.  The users: none, ids that repeat, and a user
\* decoded from a payload without user_id (LeagueUser.from_api gives it "").
\* The viewer (user_id): None, "", a user's id, an unknown id.
OwnerValues == {PyNone, Str(""), Str("u1"), Str("u9")}

OwnershipRosterPool ==
    [roster_id : {1, 2}, owner_id : OwnerValues, wins : {0}, fpts : {0}]

OwnershipUsers ==
    {<<>>,
     <<User("u1", "Ann")>>,
     <<User("", "Nobody")>>,
     <<User("u1", "Ann"), User("u1", "Bob")>>,
     <<User("", "Nobody"), User("u1", "Ann")>>}

OwnershipInputs ==
    [nfl_state : {TheNflState},
     league : {TheLeague},
     rosters : SeqUpTo(OwnershipRosterPool, MaxRosters),
     users : OwnershipUsers,
     matchups : {<<>>},
     user_id : OwnerValues]

\* Matchup lists for a league where the viewer u1 owns roster 1, roster 2 has
\* no owner and roster 3 is in no roster list: entries with and without a
\* matchup_id, the viewer's entry anywhere in the list or missing, no sibling,
\* one or several.
MatchupPool ==
    [roster_id : {1, 2, 3}, matchup_id : {PyNone, PyInt(7), PyInt(8)}, points : {10, 20}]

MatchupInputs ==
    [nfl_state : {TheNflState},
     league : {TheLeague},
     rosters : {<<[roster_id |-> 1, owner_id |-> Str("u1"), wins |-> 0, fpts |-> 0],
                  [roster_id |-> 2, owner_id |-> PyNone, wins |-> 0, fpts |-> 0]>>},
     users : {<<User("u1", "Ann")>>},
     matchups : SeqUpTo(MatchupPool, MaxMatchups),
     user_id : {Str("u1")}]

BuildInputs == StandingsInputs \cup OwnershipInputs \cup MatchupInputs

BuildInit ==
    /\ build_in \in BuildInputs
    /\ build_out = <<>>
    /\ sched_in = <<>>
    /\ sched_out = <<>>
    /\ CoordIdle
    /\ RestIdle

BuildCall ==
    /\ build_out = <<>>
    /\ build_out' = <<build(build_in.nfl_state, build_in.league, build_in.rosters,
                            build_in.users, build_in.matchups, build_in.user_id)>>
    /\ UNCHANGED <<build_in, sched_in, sched_out, coord_vars, rest_vars>>

\* SleeperSensorEntity.native_value and extra_state_attributes of my_matchup
MatchupSensorRead ==
    /\ build_out # <<>>
    /\ sensor_out = <<>>
    /\ sensor_out' = <<[native_value |-> my_matchup_state(build_out[1]),
                        extra_state_attributes |-> my_matchup_attrs(build_out[1])]>>
    /\ UNCHANGED <<build_in, build_out, sched_in, sched_out, coord_vars, decode_in,
                   decode_out, clock, known_roster_ids, entities>>

BuildNext == BuildCall \/ MatchupSensorRead

BuildSpec == BuildInit /\ [][BuildNext]_vars

(***************************************************************************)
(* models.py / api.py: decoding the season state, and the fetch errors     *)
(***************************************************************************)
\* A field of a JSON object is Absent or a Python value (PyNone for null).
Absent == <<"absent">>

\* dict.get(key, default): the default only when the key is absent
DictGet(field, default) == IF field = Absent THEN default ELSE field

\* NflState.from_api
NflState_from_api(payload) ==
    [week |-> DictGet(payload.week, PyInt(1)),
     season |-> DictGet(payload.season, Str("")),
     season_type |-> DictGet(payload.season_type, Str("off"))]

\* The decoder as a pure function: DecodeSpec draws a payload (each field
\* absent, null, of the documented type or of another type; season_type also a
\* string outside the documented four) and applies from_api once.
DecodePayloads ==
    [week : {Absent, PyNone, PyInt(1), PyInt(15), Str("15")},
     season : {Absent, PyNone, Str("2024")},
     season_type : {Absent, PyNone, Str("pre"), Str("regular"), Str("post"),
                    Str("off"), Str("playoffs"), PyInt(2)}]

DecodeInit ==
    /\ decode_in \in DecodePayloads
    /\ decode_out = <<>>
    /\ sched_in = <<>>
    /\ sched_out = <<>>
    /\ build_in = <<>>
    /\ build_out = <<>>
    /\ CoordIdle
    /\ sensor_out = <<>>
    /\ clock = <<>>
    /\ known_roster_ids = <<>>
    /\ entities = <<>>

DecodeCall ==
    /\ decode_out = <<>>
    /\ decode_out' = <<NflState_from_api(decode_in)>>
    /\ UNCHANGED <<decode_in, sched_in, sched_out, build_in, build_out, coord_vars,
                   sensor_out, clock, known_roster_ids, entities>>

DecodeNext == DecodeCall

DecodeSpec == DecodeInit /\ [][DecodeNext]_vars

\* The two exceptions SleeperApiClient._get raises.
ApiErrors == {"SleeperApiConnectionError", "SleeperApiNotFoundError"}

(***************************************************************************)
(* What the remote API may answer in a refresh cycle                       *)
(***************************************************************************)
NflStatePayloads ==
    [week : {Absent, PyNone, PyInt(15)},
     season : {Str("2024")},
     season_type : {Absent, Str("pre"), Str("regular"), Str("post")}]

Roster(id, owner, wins, fpts) ==
    [roster_id |-> id, owner_id |-> owner, wins |-> wins, fpts |-> fpts]

Matchup(rid, mid, points) ==
    [roster_id |-> rid, matchup_id |-> mid, points |-> points]

ServerLeagues == {TheLeague}

ServerRosters ==
    {<<Roster(1, Str("u1"), 1, 50)>>,
     <<Roster(2, PyNone, 0, 50), Roster(1, Str("u1"), 0, 50)>>}

ServerUsers == {<<User("u1", "Ann")>>}

ServerMatchups ==
    {<<>>, <<Matchup(1, PyInt(7), 100), Matchup(2, PyInt(7), 90)>>}

\* The clock reads datetime.now(EASTERN) may give at the end of a cycle:
\* every day of the week, at an hour before every window and at one inside.
ClockReads == {<<d, h>> : d \in Days, h \in {11, 19}}

\* coordinator.user_id (line 44): the configured viewer
ConfiguredUserId == Str("u1")

(***************************************************************************)
(* coordinator.py: one refresh cycle, _async_update_data.                  *)
(*                                                                         *)
(* The coroutine runs on the event loop: what it does between two awaits   *)
(* is one step.  A step starts when the awaited fetch answers and ends at  *)
(* the next await, or with the return or the exception handed to the host. *)
(* The trace of a cycle (its log) lists the fetches issued, each pending,  *)
(* "ok" or failed with an exception of the client, and the builder calls.  *)
(***************************************************************************)
MaxCycleId == 2

Entry(op, arg, res) == [op |-> op, arg |-> arg, res |-> res]

MarkLast(log, res) == [log EXCEPT ![Len(log)].res = res]

\* A finished coroutine keeps nothing but the season state it had fetched
\* (kept here to state what the cycle was about) and its trace.
Finished(t, pc, log) ==
    [pc |-> pc, cycle |-> t.cycle,
     locals |-> [NoLocals EXCEPT !.nfl_state = t.locals.nfl_state],
     log |-> log]

\* The host's side of a finished cycle (DataUpdateCoordinator._async_refresh,
\* `self.data = await self._async_update_data()`): a returned SleeperData is
\* published, an exception leaves coordinator.data alone; either way the next
\* refresh is scheduled.
HostReceives(result, cycle) ==
    /\ IF IsOk(result)
       THEN /\ data' = <<result[2]>>
            /\ data_cycle' = cycle
            /\ last_result' = "ok"
       ELSE /\ UNCHANGED <<data, data_cycle>>
            /\ last_result' = result[2]
    /\ refresh_scheduled' = TRUE

\* A faulty host: the timer is armed again as soon as the cycle starts.
HostStartsRefresh_RearmsAtOnce ==
    /\ refresh_scheduled
    /\ \E s \in Slots :
        /\ ~InFlight(s)
        /\ \A r \in Slots : r < s => InFlight(r)
        /\ tasks' = [tasks EXCEPT ![s] =
                        [pc |-> "nfl_state", cycle |-> next_cycle,
                         locals |-> NoLocals,
                         log |-> <<Entry("nfl_state", <<>>, "pending")>>]]
    /\ refresh_scheduled' = TRUE
    /\ next_cycle' = (next_cycle % MaxCycleId) + 1
    /\ UNCHANGED <<data, update_interval, last_result, data_cycle,
                   interval_cycle, pure_vars>>

\* The host's pending refresh fires: the timer is not armed again until the
\* cycle has finished.  The coroutine starts in the first slot not in flight
\* and runs to its first await (line 57).
HostStartsRefresh ==
    /\ refresh_scheduled
    /\ \E s \in Slots :
        /\ ~InFlight(s)
        /\ \A r \in Slots : r < s => InFlight(r)
        /\ tasks' = [tasks EXCEPT ![s] =
                        [pc |-> "nfl_state", cycle |-> next_cycle,
                         locals |-> NoLocals,
                         log |-> <<Entry("nfl_state", <<>>, "pending")>>]]
    /\ refresh_scheduled' = FALSE
    /\ next_cycle' = (next_cycle % MaxCycleId) + 1
    /\ UNCHANGED <<data, update_interval, last_result, data_cycle,
                   interval_cycle, pure_vars>>

\* A faulty translation: the not-found exception is not caught.
TranslateError_NotFoundEscapes(kind) ==
    IF kind = "SleeperApiNotFoundError" THEN kind ELSE "UpdateFailed"

\* Lines 70-73: both exceptions of the client are re-raised as UpdateFailed.
TranslateError(kind) == "UpdateFailed"

\* A faulty test: the post season is left out.
MatchupsDue_RegularOnly(season_type) == season_type = Str("regular")

\* Line 63
MatchupsDue(season_type) == season_type \in {Str("regular"), Str("post")}

\* Line 105, datetime.now(EASTERN): the reading of the clock where the model
\* lets the clock run (TimedSpec), any day and hour where it does not.
Now == IF clock = <<>> THEN ClockReads ELSE {clock}

\* A faulty cycle with hysteresis: the interval never grows.
Finish_IntervalOnlyShrinks(s, loc, matchups, log, now) ==
    LET t == [tasks[s] EXCEPT !.locals = loc]
        st == loc.nfl_state[1]
        built == build(st, loc.league[1], loc.rosters[1], loc.users[1],
                       matchups, ConfiguredUserId)
        log2 == Append(log, Entry("build", matchups, "ok"))
        iv == calculate_update_interval(st.season_type, st.week, now[1], now[2])
    IN  /\ IF IsOk(iv)
           THEN /\ update_interval' =
                       IF iv[2] < update_interval THEN iv[2] ELSE update_interval
                /\ interval_cycle' = t.cycle
                /\ tasks' = [tasks EXCEPT ![s] = Finished(t, "returned", log2)]
                /\ HostReceives(Ok(built), t.cycle)
           ELSE /\ UNCHANGED <<update_interval, interval_cycle>>
                /\ tasks' = [tasks EXCEPT ![s] = Finished(t, "raised", log2)]
                /\ HostReceives(Raise(iv[2]), t.cycle)
        /\ UNCHANGED <<next_cycle, pure_vars>>

\* Lines 75-92: build the SleeperData, set update_interval, return.  `now` is
\* the clock read of line 105.  An exception of the scheduler leaves the
\* method before update_interval is assigned.
Finish(s, loc, matchups, log, now) ==
    LET t == [tasks[s] EXCEPT !.locals = loc]
        st == loc.nfl_state[1]
        built == build(st, loc.league[1], loc.rosters[1], loc.users[1],
                       matchups, ConfiguredUserId)
        log2 == Append(log, Entry("build", matchups, "ok"))
        iv == calculate_update_interval(st.season_type, st.week, now[1], now[2])
    IN  /\ IF IsOk(iv)
           THEN /\ update_interval' = iv[2]
                /\ interval_cycle' = t.cycle
                /\ tasks' = [tasks EXCEPT ![s] = Finished(t, "returned", log2)]
                /\ HostReceives(Ok(built), t.cycle)
           ELSE /\ UNCHANGED <<update_interval, interval_cycle>>
                /\ tasks' = [tasks EXCEPT ![s] = Finished(t, "raised", log2)]
                /\ HostReceives(Raise(iv[2]), t.cycle)
        /\ UNCHANGED <<next_cycle, pure_vars>>

\* The step to the next await: the fetch awaited has answered, the next one
\* is issued.
Continue(s, loc, next, arg) ==
    /\ tasks' = [tasks EXCEPT ![s] =
                    [pc |-> next, cycle |-> tasks[s].cycle, locals |-> loc,
                     log |-> Append(MarkLast(tasks[s].log, "ok"),
                                    Entry(next, arg, "pending"))]]
    /\ UNCHANGED <<data, update_interval, last_result, refresh_scheduled,
                   next_cycle, data_cycle, interval_cycle, pure_vars>>

\* A faulty handler: a failed matchup fetch is taken as matchups = [].
FetchFails_MatchupErrorSwallowed(s, kind) ==
    /\ InFlight(s)
    /\ kind \in ApiErrors
    /\ IF tasks[s].pc = "matchups"
       THEN \E now \in Now :
                Finish(s, tasks[s].locals, <<>>, MarkLast(tasks[s].log, kind), now)
       ELSE /\ tasks' = [tasks EXCEPT ![s] =
                     Finished(tasks[s], "raised", MarkLast(tasks[s].log, kind))]
            /\ HostReceives(Raise(TranslateError(kind)), tasks[s].cycle)
            /\ UNCHANGED <<update_interval, interval_cycle, next_cycle, pure_vars>>

\* A faulty handler: a failed cycle falls back to the regular cadence.
FetchFails_ResetsInterval(s, kind) ==
    /\ InFlight(s)
    /\ kind \in ApiErrors
    /\ tasks' = [tasks EXCEPT ![s] =
                    Finished(tasks[s], "raised", MarkLast(tasks[s].log, kind))]
    /\ HostReceives(Raise(TranslateError(kind)), tasks[s].cycle)
    /\ update_interval' = UPDATE_INTERVAL_REGULAR
    /\ UNCHANGED <<interval_cycle, next_cycle, pure_vars>>

\* The awaited fetch fails with an exception of the client (api.py, _get):
\* lines 70-73 re-raise it and the cycle is over.
FetchFails(s, kind) ==
    /\ InFlight(s)
    /\ kind \in ApiErrors
    /\ tasks' = [tasks EXCEPT ![s] =
                    Finished(tasks[s], "raised", MarkLast(tasks[s].log, kind))]
    /\ HostReceives(Raise(TranslateError(kind)), tasks[s].cycle)
    /\ UNCHANGED <<update_interval, interval_cycle, next_cycle, pure_vars>>

\* A faulty cycle: update_interval is set as soon as the season state is in.
NflStateReturns_SetsIntervalEarly(s, payload) ==
    /\ tasks[s].pc = "nfl_state"
    /\ LET st == NflState_from_api(payload) IN
       /\ tasks' = [tasks EXCEPT ![s] =
                       [pc |-> "league", cycle |-> tasks[s].cycle,
                        locals |-> [tasks[s].locals EXCEPT !.nfl_state = <<st>>],
                        log |-> Append(MarkLast(tasks[s].log, "ok"),
                                       Entry("league", <<>>, "pending"))]]
       /\ \E now \in Now :
            LET iv == calculate_update_interval(st.season_type, st.week,
                                                now[1], now[2])
            IN  update_interval' = IF IsOk(iv) THEN iv[2] ELSE update_interval
       /\ interval_cycle' = tasks[s].cycle
    /\ UNCHANGED <<data, last_result, refresh_scheduled, next_cycle,
                   data_cycle, pure_vars>>

\* Line 57 answers; line 58 is issued.
NflStateReturns(s, payload) ==
    /\ tasks[s].pc = "nfl_state"
    /\ Continue(s, [tasks[s].locals EXCEPT
                        !.nfl_state = <<NflState_from_api(payload)>>],
                "league", <<>>)

\* Line 58 answers; line 59 is issued.
LeagueReturns(s, league) ==
    /\ tasks[s].pc = "league"
    /\ Continue(s, [tasks[s].locals EXCEPT !.league = <<league>>],
                "rosters", <<>>)

\* Line 59 answers; line 60 is issued.
RostersReturns(s, rosters) ==
    /\ tasks[s].pc = "rosters"
    /\ Continue(s, [tasks[s].locals EXCEPT !.rosters = <<rosters>>],
                "users", <<>>)

\* Line 60 answers.  Lines 63-68: the matchups of the fetched week are fetched
\* in a regular or post season; otherwise matchups = [] and the method runs
\* on to its end.
UsersReturns(s, users) ==
    /\ tasks[s].pc = "users"
    /\ LET loc == [tasks[s].locals EXCEPT !.users = <<users>>]
           st == loc.nfl_state[1]
       IN  IF MatchupsDue(st.season_type)
           THEN Continue(s, loc, "matchups", <<st.week>>)
           ELSE \E now \in Now :
                    Finish(s, loc, <<>>, MarkLast(tasks[s].log, "ok"), now)

\* Lines 64-66 answer; the method runs on to its end.
MatchupsReturns(s, matchups) ==
    /\ tasks[s].pc = "matchups"
    /\ \E now \in Now :
           Finish(s, tasks[s].locals, matchups, MarkLast(tasks[s].log, "ok"), now)

Init ==
    /\ CoordIdle
    /\ sched_in = <<>>
    /\ sched_out = <<>>
    /\ build_in = <<>>
    /\ build_out = <<>>
    /\ RestIdle

Next ==
    \/ HostStartsRefresh
    \/ \E s \in Slots, kind \in ApiErrors : FetchFails(s, kind)
    \/ \E s \in Slots, payload \in NflStatePayloads : NflStateReturns(s, payload)
    \/ \E s \in Slots, league \in ServerLeagues : LeagueReturns(s, league)
    \/ \E s \in Slots, rosters \in ServerRosters : RostersReturns(s, rosters)
    \/ \E s \in Slots, users \in ServerUsers : UsersReturns(s, users)
    \/ \E s \in Slots, matchups \in ServerMatchups : MatchupsReturns(s, matchups)

Spec == Init /\ [][Next]_vars

(***************************************************************************)
(* TimedSpec: the same coordinator with the wall clock as a part of the    *)
(* state.  The clock shows one of four readings (Tuesday 11h, Thursday 11h *)
(* and 19h, Saturday 11h) and moves between steps of the coordinator.      *)
(***************************************************************************)
TimedClockReads == {<<1, 11>>, <<3, 11>>, <<3, 19>>, <<5, 11>>}

TimedInit ==
    /\ CoordIdle
    /\ sched_in = <<>>
    /\ sched_out = <<>>
    /\ build_in = <<>>
    /\ build_out = <<>>
    /\ sensor_out = <<>>
    /\ decode_in = <<>>
    /\ decode_out = <<>>
    /\ clock \in TimedClockReads
    /\ known_roster_ids = <<>>
    /\ entities = <<>>

\* Time passes.
ClockAdvances ==
    /\ clock' \in TimedClockReads \ {clock}
    /\ UNCHANGED <<coord_vars, sched_in, sched_out, build_in, build_out, sensor_out,
                   decode_in, decode_out, known_roster_ids, entities>>

TimedNext == ClockAdvances \/ Next

TimedSpec == TimedInit /\ [][TimedNext]_vars

(***************************************************************************)
(* sensor.py, async_setup_entry: the roster sensors.  SensorSpec starts    *)
(* with the snapshot of the first refresh published (__init__.py line 24   *)
(* awaits it before the platform is set up), runs async_setup_entry, and   *)
(* then lets the host publish snapshot after snapshot, calling the         *)
(* listener registered at line 329 each time.                              *)
(***************************************************************************)
RosterIds == {1, 2, 3}

\* The roster lists of the snapshots published: no roster id twice in a list.
SnapshotRosters ==
    {rs \in SeqUpTo([roster_id : RosterIds, owner_id : {PyNone}, wins : {0}, fpts : {0}],
                    MaxRosters) :
        \A i, j \in DOMAIN rs : rs[i].roster_id = rs[j].roster_id => i = j}

Snapshot(rosters) ==
    build(TheNflState, TheLeague, rosters, <<>>, <<>>, ConfiguredUserId)

\* [r.roster_id for r in rosters if r.roster_id not in known], in list order
NewRosterIds(rosters, known) ==
    LET ids == [i \in DOMAIN rosters |-> rosters[i].roster_id]
        Unknown(id) == id \notin known
    IN  SelectSeq(ids, Unknown)

current_roster_ids(rosters) == {rosters[i].roster_id : i \in DOMAIN rosters}

not_sensor_vars == <<tasks, update_interval, last_result, refresh_scheduled, next_cycle,
                     data_cycle, interval_cycle, sched_in, sched_out, build_in,
                     build_out, sensor_out, decode_in, decode_out, clock>>

SensorInit ==
    /\ tasks = [s \in Slots |-> IdleTask]
    /\ data \in {<<Snapshot(rs)>> : rs \in SnapshotRosters}
    /\ update_interval = UPDATE_INTERVAL_REGULAR
    /\ last_result = "ok"
    /\ refresh_scheduled = TRUE
    /\ next_cycle = 1
    /\ data_cycle = 0
    /\ interval_cycle = 0
    /\ sched_in = <<>>
    /\ sched_out = <<>>
    /\ build_in = <<>>
    /\ build_out = <<>>
    /\ RestIdle

\* Lines 285-295 and 303: one roster sensor for every roster of
\* coordinator.data, every id remembered; line 329 registers the listener.
async_setup_entry ==
    /\ known_roster_ids = <<>>
    /\ known_roster_ids' = <<current_roster_ids(data[1].rosters)>>
    /\ entities' = entities \o NewRosterIds(data[1].rosters, {})
    /\ UNCHANGED <<data, not_sensor_vars>>

\* A faulty listener: only the ids of the current snapshot are remembered.
async_check_new_rosters_ForgetsAbsent(d) ==
    LET new_entities == NewRosterIds(d.rosters, known_roster_ids[1]) IN
    IF new_entities # <<>>
    THEN /\ known_roster_ids' = <<current_roster_ids(d.rosters)>>
         /\ entities' = entities \o new_entities
    ELSE /\ known_roster_ids' = <<current_roster_ids(d.rosters)>>
         /\ UNCHANGED entities

\* Lines 306-327, _async_check_new_rosters, run on the snapshot d.
async_check_new_rosters(d) ==
    LET new_entities == NewRosterIds(d.rosters, known_roster_ids[1]) IN
    IF new_entities # <<>>
    THEN /\ known_roster_ids' =
                <<known_roster_ids[1] \cup current_roster_ids(d.rosters)>>
         /\ entities' = entities \o new_entities
    ELSE UNCHANGED <<known_roster_ids, entities>>

\* The host publishes the snapshot of a successful refresh and calls the
\* listeners (DataUpdateCoordinator.async_set_updated_data / _async_refresh).
SnapshotPublished(rosters) ==
    /\ known_roster_ids # <<>>
    /\ data' = <<Snapshot(rosters)>>
    /\ async_check_new_rosters(Snapshot(rosters))
    /\ UNCHANGED not_sensor_vars

SensorNext ==
    \/ async_setup_entry
    \/ \E rosters \in SnapshotRosters : SnapshotPublished(rosters)

SensorSpec == SensorInit /\ [][SensorNext]_vars


(***************************************************************************)
(* Claims about the refresh cycle (checked under Spec)                     *)
(***************************************************************************)
Last(log) == log[Len(log)]

HasEntry(log, op) == \E i \in DOMAIN log : log[i].op = op

\* C1: when a refresh cycle fails at any fetch, with either exception of the
\* client (connection failure or not-found), the cycle hands the same
\* UpdateFailed to the host, no new snapshot is published, and coordinator.data
\* is still the snapshot of the last successful cycle.
C1_FetchFailureIsUpdateFailed ==
    [][\A s \in Slots :
          (/\ InFlight(s)
           /\ tasks'[s].pc = "raised"
           /\ Last(tasks'[s].log).res \in
                  {"SleeperApiConnectionError", "SleeperApiNotFoundError"})
          => /\ last_result' = "UpdateFailed"
             /\ data' = data
             /\ data_cycle' = data_cycle]_vars

\* a cycle that failed with not-found at its last fetch, after a snapshot had
\* been published
C1_Witness ==
    \E s \in Slots :
        /\ tasks[s].pc = "raised"
        /\ Last(tasks[s].log).op = "matchups"
        /\ Last(tasks[s].log).res = "SleeperApiNotFoundError"
        /\ last_result = "UpdateFailed"
        /\ data # <<>>
        /\ data_cycle # tasks[s].cycle

\* C2: in every cycle the builder is invoked only after the season-state,
\* league, roster and user fetches (and the matchup fetch when the season type
\* is 'regular' or 'post') have succeeded; after a failed fetch nothing more
\* happens in the cycle (no later fetch, no builder call), and no fetch is
\* issued twice in a cycle.
C2_BuilderAfterAllFetches ==
    \A s \in Slots :
        LET log == tasks[s].log
            st == tasks[s].locals.nfl_state
        IN  /\ \A i \in DOMAIN log :
                 log[i].op = "build" =>
                    /\ \A op \in {"nfl_state", "league", "rosters", "users"} :
                          \E j \in 1 .. (i - 1) :
                              log[j].op = op /\ log[j].res = "ok"
                    /\ st[1].season_type \in {Str("regular"), Str("post")} =>
                          \E j \in 1 .. (i - 1) :
                              log[j].op = "matchups" /\ log[j].res = "ok"
            /\ \A i \in DOMAIN log :
                 log[i].res \notin {"pending", "ok"} => i = Len(log)
            /\ \A i, j \in DOMAIN log : i # j => log[i].op # log[j].op

\* a cycle that returned after five fetches and one builder call
C2_Witness ==
    \E s \in Slots :
        /\ tasks[s].pc = "returned"
        /\ Len(tasks[s].log) = 6
        /\ tasks[s].log[5].op = "matchups"
        /\ tasks[s].log[6].op = "build"

\* C3: the matchup fetch is issued if and only if the season type fetched in
\* the same cycle is 'regular' or 'post', and it is issued for that cycle's
\* fetched week; in every other cycle no matchup fetch is issued and the
\* matchups given to the builder are empty.
C3_MatchupFetchOnlyInSeason ==
    \A s \in Slots :
        LET log == tasks[s].log
            st == tasks[s].locals.nfl_state
        IN  /\ \A i \in DOMAIN log :
                 log[i].op = "matchups" =>
                    /\ st # <<>>
                    /\ st[1].season_type \in {Str("regular"), Str("post")}
                    /\ log[i].arg = <<st[1].week>>
            /\ (/\ \E i \in DOMAIN log : log[i].op = "users" /\ log[i].res = "ok"
                /\ st[1].season_type \in {Str("regular"), Str("post")})
               => HasEntry(log, "matchups")
            /\ \A i \in DOMAIN log :
                 (log[i].op = "build" /\ ~HasEntry(log, "matchups"))
                    => log[i].arg = <<>>

\* a post-season cycle that fetched the matchups of week 15 and built with them
C3_Witness ==
    \E s \in Slots :
        /\ tasks[s].pc = "returned"
        /\ tasks[s].locals.nfl_state[1].season_type = Str("post")
        /\ tasks[s].log[5] = Entry("matchups", <<PyInt(15)>>, "ok")
        /\ tasks[s].log[6].op = "build"
        /\ tasks[s].log[6].arg # <<>>

\* C4: coordinator.data and coordinator.update_interval are replaced together:
\* whenever anything else can run (between two steps of the event loop) both
\* were written by the same cycle, or both are still as constructed.
C4_SnapshotAndIntervalTogether ==
    data_cycle = interval_cycle

\* a second cycle is waiting for its matchups, having fetched another season
\* state than the published one, and data and interval are still the first's
C4_Witness ==
    \E s \in Slots :
        /\ tasks[s].pc = "matchups"
        /\ data # <<>>
        /\ tasks[s].locals.nfl_state[1] # data[1].nfl_state
        /\ tasks[s].cycle # data_cycle
        /\ data_cycle = interval_cycle
        /\ data_cycle # 0

\* C5: at most one refresh cycle is in flight at any time.
C5_AtMostOneCycleInFlight ==
    Cardinality({s \in Slots : InFlight(s)}) <= 1

\* a later cycle in flight, started after an earlier one had finished
C5_Witness ==
    \E s \in Slots :
        /\ InFlight(s)
        /\ last_result # "none"
        /\ ~refresh_scheduled

\* C15: after every successful refresh cycle update_interval is the
\* scheduler's result for the season type and week that cycle fetched and the
\* clock's day and hour at the end of the cycle, whatever update_interval was
\* before.
C15_IntervalRecomputedEachCycle ==
    [][\A s \in Slots :
          (InFlight(s) /\ tasks'[s].pc = "returned") =>
              LET st == tasks'[s].locals.nfl_state[1] IN
              Ok(update_interval') =
                  calculate_update_interval(st.season_type, st.week, clock[1], clock[2])
      ]_vars

\* the second cycle fetched a regular season in week 15 and ended on a
\* Thursday at 19h: the interval is the game-window cadence
C15_Witness ==
    /\ tasks[1].pc = "returned"
    /\ tasks[1].cycle = 2
    /\ tasks[1].locals.nfl_state[1].season_type = Str("regular")
    /\ clock = <<3, 19>>
    /\ interval_cycle = 2
    /\ update_interval = UPDATE_INTERVAL_GAME_WINDOW

\* C16: a refresh cycle that fails leaves update_interval as it was: it is the
\* regular cadence (1 h) as long as no cycle has succeeded, and a step that
\* ends a cycle with an exception does not change it, whatever season state
\* that cycle had fetched.
C16_FailedCycleKeepsInterval ==
    /\ [](data = <<>> => update_interval = UPDATE_INTERVAL_REGULAR)
    /\ [][\A s \in Slots :
             (InFlight(s) /\ tasks'[s].pc = "raised") =>
                 update_interval' = update_interval
         ]_vars

\* a cycle that fetched an off season set the off-season cadence; a later
\* cycle fetched a regular season and then failed
C16_Witness ==
    /\ data # <<>>
    /\ data[1].nfl_state.season_type = Str("off")
    /\ update_interval = UPDATE_INTERVAL_OFFSEASON
    /\ last_result = "UpdateFailed"
    /\ \E s \in Slots :
           /\ tasks[s].pc = "raised"
           /\ tasks[s].locals.nfl_state # <<>>
           /\ tasks[s].locals.nfl_state[1].season_type = Str("regular")

(***************************************************************************)
(* Claims about the snapshot builder (checked under BuildSpec)             *)
(***************************************************************************)
BuildCalled == build_out # <<>>

\* p orders the rosters rs by wins descending, then fpts descending, and keeps
\* rosters equal on both in input order.
OrdersStably(p, rs) ==
    \A i, j \in DOMAIN rs :
        i < j =>
            LET a == rs[p[i]]
                b == rs[p[j]]
            IN  \/ a.wins > b.wins
                \/ a.wins = b.wins /\ a.fpts > b.fpts
                \/ a.wins = b.wins /\ a.fpts = b.fpts /\ p[i] < p[j]

\* C10: for every roster sequence given to build, standings is a permutation
\* of the rosters' ids ordered by wins descending, then points-for descending,
\* with rosters equal on both keys in their input order.
C10_StandingsStableSort ==
    BuildCalled =>
        LET rs == build_in.rosters
            st == build_out[1].standings
        IN  /\ Len(st) = Len(rs)
            /\ \E p \in Permutations(DOMAIN rs) :
                   /\ OrdersStably(p, rs)
                   /\ \A i \in DOMAIN rs : st[i] = rs[p[i]].roster_id

\* three rosters: the first two tie on (wins, fpts), the third beats both
C10_Witness ==
    /\ BuildCalled
    /\ Len(build_in.rosters) = 3
    /\ build_in.rosters[1].roster_id = 2
    /\ build_in.rosters[2].roster_id = 1
    /\ build_in.rosters[3].roster_id = 3
    /\ build_in.rosters[1].wins = 0 /\ build_in.rosters[1].fpts = 50
    /\ build_in.rosters[2].wins = 0 /\ build_in.rosters[2].fpts = 50
    /\ build_in.rosters[3].wins = 1 /\ build_in.rosters[3].fpts = 0
    /\ build_out[1].standings = <<3, 2, 1>>

UniqueRosterIds(rosters) ==
    \A i, j \in DOMAIN rosters : rosters[i].roster_id = rosters[j].roster_id => i = j

\* The users whose user_id is the given id.
UsersWithId(users, id) == {users[j] : j \in {k \in DOMAIN users : users[k].user_id = id}}

\* An owner id or viewer id is given: it is neither None nor the empty string.
IdGiven(id) == id # PyNone /\ id # Str("")

C12_ViewerResolution ==
    BuildCalled =>
        LET rosters == build_in.rosters
            viewer == build_in.user_id
            matches == UsersWithId(build_in.users, viewer)
            owned == {i \in DOMAIN rosters : rosters[i].owner_id = viewer}
            d == build_out[1]
        IN  IF IdGiven(viewer)
            THEN /\ matches = {} => d.my_user = <<>>
                 /\ matches # {} => Len(d.my_user) = 1 /\ d.my_user[1] \in matches
                 /\ owned = {} => d.my_roster = <<>>
                 /\ owned # {} =>
                        /\ Len(d.my_roster) = 1
                        /\ \E i \in owned :
                               /\ \A j \in owned : i <= j
                               /\ d.my_roster[1] = rosters[i]
            ELSE d.my_user = <<>> /\ d.my_roster = <<>>

\* no viewer is configured and the first roster has no owner
C12_Witness ==
    /\ BuildCalled
    /\ build_in.user_id = PyNone
    /\ Len(build_in.rosters) = 2
    /\ build_in.rosters[1].owner_id = PyNone
    /\ build_in.rosters[2].owner_id = Str("u1")
    /\ build_out[1].my_roster = <<>>
    /\ build_out[1].my_user = <<>>

SensorRead == sensor_out # <<>>

\* C13: for a snapshot with my_roster present the my_matchup sensor shows
\* "BYE" and no opponent when the matchup list is empty, when no entry has
\* my_roster's id, when the first such entry has no matchup_id, or when no
\* entry of another roster shares that matchup_id; otherwise it shows the
\* points of my_roster's entry and the points and the owner's name of the
\* first entry of another roster sharing the matchup_id.
C13_OpponentResolution ==
    (SensorRead /\ build_out[1].my_roster # <<>>) =>
        LET d == build_out[1]
            ms == d.matchups
            me == d.my_roster[1].roster_id
            mine == {i \in DOMAIN ms : ms[i].roster_id = me}
            shown == sensor_out[1]
        IN  IF \/ ms = <<>>
               \/ mine = {}
               \/ \E i \in mine : (\A j \in mine : i <= j) /\ ms[i].matchup_id = PyNone
               \/ \E i \in mine :
                      /\ \A j \in mine : i <= j
                      /\ \A k \in DOMAIN ms :
                             ms[k].roster_id = me \/ ms[k].matchup_id # ms[i].matchup_id
            THEN /\ shown.native_value = Str("BYE")
                 /\ shown.extra_state_attributes.opponent_name = PyNone
                 /\ shown.extra_state_attributes.opponent_points = PyNone
            ELSE \E i \in mine, o \in DOMAIN ms :
                     /\ \A j \in mine : i <= j
                     /\ ms[o].roster_id # me /\ ms[o].matchup_id = ms[i].matchup_id
                     /\ \A k \in 1 .. (o - 1) :
                            ms[k].roster_id = me \/ ms[k].matchup_id # ms[i].matchup_id
                     /\ shown.native_value = <<"str", ms[i].points, " - ", ms[o].points>>
                     /\ shown.extra_state_attributes.opponent_points = ms[o].points
                     /\ shown.extra_state_attributes.opponent_name =
                            IF ms[o].roster_id \in DOMAIN d.roster_to_user
                            THEN d.roster_to_user[ms[o].roster_id].display_name
                            ELSE Str("Unknown")

\* the viewer's entry is second; two other entries share its matchup_id and
\* the first of them, of the ownerless roster 2, is the opponent
C13_Witness ==
    /\ SensorRead
    /\ build_out[1].my_roster # <<>>
    /\ build_out[1].my_roster[1].roster_id = 1
    /\ build_in.matchups = <<[roster_id |-> 2, matchup_id |-> PyInt(7), points |-> 10],
                             [roster_id |-> 1, matchup_id |-> PyInt(7), points |-> 20],
                             [roster_id |-> 3, matchup_id |-> PyInt(7), points |-> 20]>>
    /\ sensor_out[1].native_value = <<"str", 20, " - ", 10>>
    /\ sensor_out[1].extra_state_attributes.opponent_name = Str("Unknown")
    /\ sensor_out[1].extra_state_attributes.opponent_points = 10


(***************************************************************************)
(* Claims about the roster sensors (checked under SensorSpec)              *)
(***************************************************************************)
\* How many roster sensors have been created for the roster id.
Created(ents, id) == Cardinality({i \in DOMAIN ents : ents[i] = id})

PublishedIds == current_roster_ids(data[1].rosters)

\* C17: over snapshots with no roster id twice, the sensor of a roster id is
\* created exactly once: no id ever has two sensors; once the platform is set
\* up every id of the published snapshot has its sensor (so it was created at
\* setup or by the listener on the first snapshot with the id); and a step
\* creates a sensor only for an id that is in the snapshot published by that
\* step and had no sensor before, also when the id had been missing from
\* earlier snapshots.
C17_RosterSensorCreatedOnce ==
    /\ [](\A id \in RosterIds :
             /\ Created(entities, id) <= 1
             /\ (known_roster_ids # <<>> /\ id \in PublishedIds) =>
                    Created(entities, id) = 1)
    /\ [][\A id \in RosterIds :
             Created(entities', id) > Created(entities, id) =>
                 /\ Created(entities, id) = 0
                 /\ id \in current_roster_ids(data'[1].rosters)
         ]_vars

\* roster 3 got its sensor first, rosters 1 and 2 later from the listener; the
\* snapshot now published has rosters 1 and 3 only, in another order
C17_Witness ==
    /\ known_roster_ids = <<{1, 2, 3}>>
    /\ entities = <<3, 1, 2>>
    /\ Len(data[1].rosters) = 2
    /\ data[1].rosters[1].roster_id = 1
    /\ data[1].rosters[2].roster_id = 3


(***************************************************************************)
(* Claims about decoding the season state (checked under DecodeSpec)       *)
(***************************************************************************)
Decoded == decode_out # <<>>

SeasonTypeEnum == {Str("pre"), Str("regular"), Str("post"), Str("off")}

\* C14: for every payload, whether its season_type field is absent, null or
\* holds a value outside pre/regular/post/off, the decoded season state has a
\* season_type that is one of the four enum values, "off" standing in for
\* every value that is not one of them.
C14_SeasonTypeAlwaysEnum ==
    Decoded =>
        /\ decode_out[1].season_type \in SeasonTypeEnum
        /\ decode_in.season_type \notin SeasonTypeEnum =>
               decode_out[1].season_type = Str("off")

\* a payload with "season_type": null has been decoded, and season_type is None
C14_Witness ==
    /\ Decoded
    /\ decode_in.season_type = PyNone
    /\ decode_out[1].season_type = PyNone


(***************************************************************************)
(* Claims about the polling scheduler (checked under SchedSpec)            *)
(***************************************************************************)
Monday == 0
Thursday == 3
Saturday == 5
Sunday == 6

SchedCalled == sched_out # <<>>
ActiveSeason == sched_in.season_type \in {Str("regular"), Str("post")}

\* The game window as the specification words it, for an integer week.
SpecInGameWindow ==
    LET d == sched_in.day_of_week
        h == sched_in.hour
    IN  \/ d = Thursday /\ h >= 19
        \/ d = Sunday /\ h >= 12
        \/ d = Monday /\ h >= 19
        \/ /\ d = Saturday
           /\ h >= 12
           /\ (sched_in.week[2] >= 15 \/ sched_in.season_type = Str("post"))

\* The game day as the specification words it, for an integer week.
SpecIsGameDay ==
    LET d == sched_in.day_of_week IN
        \/ d \in {Thursday, Sunday, Monday}
        \/ /\ d = Saturday
           /\ (sched_in.week[2] >= 15 \/ sched_in.season_type = Str("post"))

\* C6: with season type 'off' the scheduler returns the off-season cadence
\* (24 h) for every week, day of week and hour.
C6_OffSeasonAlwaysOffCadence ==
    (SchedCalled /\ sched_in.season_type = Str("off"))
        => sched_out[1] = Ok(24 * 60)

C6_Witness ==
    /\ SchedCalled
    /\ sched_in.season_type = Str("off")
    /\ sched_in.week = PyInt(16)
    /\ sched_in.day_of_week = Sunday
    /\ sched_in.hour = 13
    /\ sched_out[1] = Ok(24 * 60)

\* C7: for season type 'regular' or 'post' (and an integer week) the scheduler
\* returns the game-window cadence (5 min) exactly when the Eastern (day, hour)
\* is Thursday >= 19, Sunday >= 12, Monday >= 19, or Saturday >= 12 with
\* week >= 15 or season type 'post'.
C7_GameWindowCadence ==
    (SchedCalled /\ ActiveSeason /\ IsInt(sched_in.week))
        => (sched_out[1] = Ok(5) <=> SpecInGameWindow)

\* regular, week 16, Saturday 13:00 gives the short cadence
C7_Witness ==
    /\ SchedCalled
    /\ sched_in.season_type = Str("regular")
    /\ sched_in.week = PyInt(16)
    /\ sched_in.day_of_week = Saturday
    /\ sched_in.hour = 13
    /\ sched_out[1] = Ok(5)

\* C8: for season type 'regular' or 'post' (and an integer week), outside a
\* game window the scheduler returns the game-day cadence (15 min) on Thursday,
\* Sunday, Monday, or Saturday with week >= 15 or season type 'post', and the
\* default cadence (1 h) on every other day.
C8_GameDayCadence ==
    (SchedCalled /\ ActiveSeason /\ IsInt(sched_in.week) /\ ~SpecInGameWindow)
        => sched_out[1] = IF SpecIsGameDay THEN Ok(15) ELSE Ok(60)

\* regular, week 5, Saturday 13:00 gives the default cadence
C8_Witness ==
    /\ SchedCalled
    /\ sched_in.season_type = Str("regular")
    /\ sched_in.week = PyInt(5)
    /\ sched_in.day_of_week = Saturday
    /\ sched_in.hour = 13
    /\ sched_out[1] = Ok(60)

\* C9: for every season type other than 'off', 'regular' and 'post' (pre-season,
\* unrecognized, empty or None), and for every week (None included) and time,
\* the scheduler returns the default cadence (1 h) and does not raise.
C9_UnrecognizedSeasonDefaultCadence ==
    (SchedCalled
        /\ sched_in.season_type \notin {Str("off"), Str("regular"), Str("post")})
        => sched_out[1] = Ok(60)

\* an unrecognized season type with a None week on a Saturday afternoon, where
\* the active-season logic would compare the week
C9_Witness ==
    /\ SchedCalled
    /\ sched_in.season_type = Str("playoffs")
    /\ sched_in.week = PyNone
    /\ sched_in.day_of_week = Saturday
    /\ sched_in.hour = 13
    /\ sched_out[1] = Ok(60)

====
